---- MODULE Spec2Model ----
(***************************************************************************)
(* NightDriverStrip matrix effects that show data fetched over the network *)
(* (PatternStocks.h, PatternWeather.h, PatternSubscribers.h): the render   *)
(* loop's Draw tick of one effect instance, interleaved with the steps of  *)
(* the FreeRTOS tasks the effect creates to fetch its data.                *)
(*                                                                         *)
(* One behaviour follows one effect instance (variable effect).  A Draw    *)
(* tick is one step of the single render task; the statements of a worker  *)
(* task are separate steps, so that a tick can fall between any two of     *)
(* them.  The clocks (system_clock, time(), millis()) are one reading,     *)
(* now, in seconds, that never runs backwards.                             *)
(***************************************************************************)
EXTENDS Integers, Sequences, FiniteSets, TLC

VARIABLES
    effect,         \* which effect this instance is
    now,            \* the clock reading, in seconds
    started,        \* the clock reading when the instance was constructed
    wifi,           \* WiFi.isConnected()
    \* ---- PatternStocks (PatternStocks.h:182-199)
    isUpdating,     \* bool isUpdating
    nextFetch,      \* system_clock::time_point nextFetch
    lastUpdate,     \* system_clock::time_point lastUpdate
    lastCount,      \* static uint lastCount of Draw
    iCurrentStock,  \* int iCurrentStock
    stockData,      \* std::map<String, StockData> stockData
    stocksTasks,    \* the live FetchQuotesTask tasks, each with its locals
    stocksSpawnedAt, \* history: the clock reading of the latest xTaskCreate, -1 if none
    callers,        \* tasks inside BackgroundFetchQuotes, statement by statement
    \* ---- the device configuration and the weather service
    config,         \* g_aptrDeviceConfig: location, country code, units
    serverGen,      \* which of its data sets the weather service is serving
    \* ---- PatternWeather (PatternWeather.h:75-93)
    weather,        \* the members Draw displays: strLocationName .. dataReady
    strLocation,    \* String strLocation
    strCountryCode, \* String strCountryCode
    strLatitude,    \* String strLatitude
    strLongitude,   \* String strLongitude
    weatherTask,    \* TaskHandle_t weatherTask, 0 for nullptr
    updateInProgress, \* bool updateInProgress
    latestUpdate,   \* time_t latestUpdate
    timingObj,      \* Draw's static CEveryNSeconds: its last trigger, -1 before construction
    weatherTasks,   \* the live UpdateWeather tasks, each with its locals
    \* ---- PatternSubscribers (PatternSubscribers.h:49-60)
    channelGuid,    \* g_ptrDeviceConfig->GetYouTubeChannelGuid()
    subscribers,    \* long subscribers
    views,          \* long views
    strChannelGuid, \* String strChannelGuid
    millisLastCheck, \* unsigned long millisLastCheck
    succeededBefore, \* bool succeededBefore
    sightTask,      \* TaskHandle_t sightTask, 0 for nullptr
    sightGuid,      \* the GUID the YouTubeSight object was made for, "" for no object
    subsTasks,      \* the live SightTaskEntryPoint tasks, each with its locals
    subsFrame,      \* what Draw last put on the display
    sightFailed,    \* history: the latest sight->getData() failed
    \* ---- AnimatedText (PatternStocks.h:68-129)
    text,           \* one of the AnimatedText members of PatternStocks
    animClock,      \* system_clock::now() as the text's code last read it, in quarter seconds
    \* ---- the display
    graph,          \* the history graph UpdateQuoteDisplay last drew
    \* ---- the instance
    destroyed       \* the effect's destructor has run and its members are released

stocksVars == <<isUpdating, nextFetch, lastUpdate, lastCount, iCurrentStock,
                stockData, stocksTasks, stocksSpawnedAt>>

weatherVars == <<weather, strLocation, strCountryCode, strLatitude, strLongitude,
                 weatherTask, updateInProgress, latestUpdate, timingObj, weatherTasks>>

envVars == <<config, serverGen>>

subsVars == <<channelGuid, subscribers, views, strChannelGuid, millisLastCheck,
              succeededBefore, sightTask, sightGuid, subsTasks, subsFrame, sightFailed>>

animVars == <<text, animClock>>

vars == <<effect, now, started, wifi, stocksVars, callers, envVars, weatherVars, subsVars,
          animVars, graph, destroyed>>

---------------------------------------------------------------------------
(* Bounds of the model *)

\* How long after the construction of a Stocks effect the clock still advances.
MaxRunStocks == 150

\* How long after the construction of a Weather effect the clock still advances.
MaxRunWeather == 60

\* How long after the construction of a Subscribers effect the clock still advances.
MaxRunSubs == 95

\* How many SightTaskEntryPoint tasks may be alive.
MaxSubsTasks == 1

\* What the uninitialized millisLastCheck may hold after construction.
UninitializedValues == {0, 7000}

\* How far the clock may advance between one Draw tick and the next.
TickSteps == {0, 30}

\* The clock readings at which a Weather effect may be constructed: 0 is a
\* device whose clock is not set yet.
WeatherStartTimes == {0, 600}

\* Draw's CEveryNSeconds is a function-local static, so it outlives an instance:
\* when an instance is constructed after reading 0, an earlier instance may have
\* left the timer with one of these last triggers.
PriorTriggers == {0, 30}

---------------------------------------------------------------------------
(* Program constants *)

STOCKS_UPDATE_INTERVAL_SECONDS == 10
STOCKS_FETCH_INTERVAL_SECONDS == 60
HTTP_CODE_OK == 200

\* cszStockList split at the commas (GetAllQuotes' lambda split)
SymbolList == <<"A", "B">>

\* The keys stockData can get, in the order std::map<String, ..> keeps them
KeyOrder == <<"", "A", "B", "null">>

---------------------------------------------------------------------------
(* StockData and the quote server's answers *)

\* A default-constructed StockData
DefaultStockData ==
    [symbol |-> "", timestamp |-> 0, open |-> 0, high |-> 0, low |-> 0,
     close |-> 0, volume |-> 0, points |-> <<>>]

\* The members of StockData in declaration order, which is the order the
\* implicit copy assignment assigns them in
StockDataMembers ==
    <<"symbol", "timestamp", "open", "high", "low", "close", "volume", "points">>

\* A complete quote document for symbol s
GoodDoc(s) ==
    [symbol |-> s, timestamp |-> 1, open |-> 10, high |-> 12, low |-> 9,
     close |-> 11, volume |-> 100,
     points |-> <<[dt |-> 1, val |-> 10], [dt |-> 2, val |-> 11]>>]

\* A document that names the symbol and nothing else
SymbolOnlyDoc(s) == [symbol |-> s]

\* A document with every field but the symbol
NoSymbolDoc ==
    [timestamp |-> 1, open |-> 10, high |-> 12, low |-> 9,
     close |-> 11, volume |-> 100,
     points |-> <<[dt |-> 1, val |-> 10], [dt |-> 2, val |-> 11]>>]

\* What http.GET() and deserializeJson can give for a request of symbol s
QuoteResponses(s) ==
    { [code |-> -1,  json |-> FALSE, doc |-> [none |-> 0]],
      [code |-> 404, json |-> FALSE, doc |-> [none |-> 0]],
      [code |-> 200, json |-> FALSE, doc |-> [none |-> 0]],
      [code |-> 200, json |-> TRUE,  doc |-> GoodDoc(s)],
      [code |-> 200, json |-> TRUE,  doc |-> SymbolOnlyDoc(s)],
      [code |-> 200, json |-> TRUE,  doc |-> NoSymbolDoc] }

\* ArduinoJson: doc[f].as<float>() and as<time_t>() of an absent member is 0
AsNumber(doc, f) == IF f \in DOMAIN doc THEN doc[f] ELSE 0

\* ArduinoJson: doc[f].as<String>() of an absent member is "null"
AsString(doc, f) == IF f \in DOMAIN doc THEN doc[f] ELSE "null"

\* ArduinoJson: doc[f].as<JsonArray>() of an absent member is an empty array
AsArray(doc, f) == IF f \in DOMAIN doc THEN doc[f] ELSE <<>>

\* GetQuote, the !error branch: the StockData built from the document
BuildStockData(doc) ==
    [symbol    |-> AsString(doc, "symbol"),
     timestamp |-> AsNumber(doc, "timestamp"),
     open      |-> AsNumber(doc, "open"),
     high      |-> AsNumber(doc, "high"),
     low       |-> AsNumber(doc, "low"),
     close     |-> AsNumber(doc, "close"),
     volume    |-> AsNumber(doc, "volume"),
     points    |-> [i \in 1..Len(AsArray(doc, "points")) |->
                       [dt  |-> AsNumber(AsArray(doc, "points")[i], "dt"),
                        val |-> AsNumber(AsArray(doc, "points")[i], "val")]]]

\* GetQuote: the StockData handed to the callback for response resp
GetQuote(resp) ==
    IF resp.code = HTTP_CODE_OK
    THEN IF resp.json THEN BuildStockData(resp.doc) ELSE DefaultStockData
    ELSE DefaultStockData

\* A callback that stores whatever it is handed
CallbackStoresAlways(stockDataReceived) == TRUE

\* GetAllQuotes' callback: is the received StockData stored?
CallbackStores(stockDataReceived) == stockDataReceived.symbol # ""

---------------------------------------------------------------------------
(* The stockData map *)

\* The keys present, in map order
KeysInOrder == SelectSeq(KeyOrder, LAMBDA k : k \in DOMAIN stockData)

\* stockData.size()
StockCount == Cardinality(DOMAIN stockData)

\* stockData.begin() advanced by i: the key of that entry
KeyAt(i) == KeysInOrder[i + 1]

\* An operator[] that drops the other entries when it inserts
MapIndexFresh(map, key) ==
    IF key \in DOMAIN map
    THEN map
    ELSE [k \in {key} |-> DefaultStockData]

\* stockData[key], which inserts a default StockData when key is absent
MapIndex(map, key) ==
    IF key \in DOMAIN map
    THEN map
    ELSE [k \in DOMAIN map \cup {key} |->
             IF k = key THEN DefaultStockData ELSE map[k]]

\* UpdateQuoteDisplay and Draw: the entry the iterator advanced by i refers to
EntryAt(i) == stockData[KeyAt(i)]

---------------------------------------------------------------------------
(* The FetchQuotesTask worker *)

NewStocksTask == [pc |-> "start", i |-> 1, rcv |-> DefaultStockData, m |-> 1]

SetTask(t, task) == [stocksTasks EXCEPT ![t] = task]

RemoveTask(t) ==
    [j \in 1..(Len(stocksTasks) - 1) |->
        IF j < t THEN stocksTasks[j] ELSE stocksTasks[j + 1]]

\* A loop that gives up the list at the first symbol it is done with
NextSymbolStops(task) == [task EXCEPT !.pc = "finish", !.rcv = DefaultStockData, !.m = 1]

\* The loop of GetAllQuotes moves on to the next symbol, or returns
NextSymbol(task) ==
    IF task.i < Len(SymbolList)
    THEN [task EXCEPT !.pc = "get", !.i = task.i + 1, !.rcv = DefaultStockData, !.m = 1]
    ELSE [task EXCEPT !.pc = "finish", !.rcv = DefaultStockData, !.m = 1]

\* FetchQuotesTask: instance->isUpdating = true, then GetAllQuotes splits the list
StocksTaskStart(t) ==
    /\ stocksTasks[t].pc = "start"
    /\ isUpdating' = TRUE
    /\ stocksTasks' = SetTask(t, [stocksTasks[t] EXCEPT !.pc = "get"])
    /\ UNCHANGED <<destroyed, graph, animVars, effect, now, started, wifi, nextFetch, lastUpdate, lastCount,
                   stocksSpawnedAt, iCurrentStock, stockData, callers, envVars, weatherVars, subsVars>>

\* GetQuote for the i-th symbol: the request, the parse, and the callback's test
StocksGetQuote(t, resp) ==
    /\ stocksTasks[t].pc = "get"
    /\ LET received == GetQuote(resp)
       IN  stocksTasks' = SetTask(t,
               IF CallbackStores(received)
               THEN [stocksTasks[t] EXCEPT !.pc = "index", !.rcv = received]
               ELSE NextSymbol(stocksTasks[t]))
    /\ UNCHANGED <<destroyed, graph, animVars, effect, now, started, wifi, isUpdating, nextFetch, lastUpdate, lastCount,
                   stocksSpawnedAt, iCurrentStock, stockData, callers, envVars, weatherVars, subsVars>>

\* this->stockData[stockDataReceived.symbol]: find the entry or insert a default one
StocksMapIndex(t) ==
    /\ stocksTasks[t].pc = "index"
    /\ stockData' = MapIndex(stockData, stocksTasks[t].rcv.symbol)
    /\ stocksTasks' = SetTask(t, [stocksTasks[t] EXCEPT !.pc = "assign", !.m = 1])
    /\ UNCHANGED <<destroyed, graph, animVars, effect, now, started, wifi, isUpdating, nextFetch, lastUpdate, lastCount,
                   stocksSpawnedAt, iCurrentStock, callers, envVars, weatherVars, subsVars>>

\* A copy assignment that keeps the first history point only
StocksAssignMemberTruncating(t) ==
    /\ stocksTasks[t].pc = "assign"
    /\ LET task == stocksTasks[t]
           key  == task.rcv.symbol
           mem  == StockDataMembers[task.m]
       IN  /\ stockData' = [stockData EXCEPT ![key] =
                               [stockData[key] EXCEPT ![mem] =
                                   IF mem = "points"
                                   THEN [i \in 1..(IF Len(task.rcv[mem]) > 1 THEN 1
                                                   ELSE Len(task.rcv[mem])) |->
                                            task.rcv[mem][i]]
                                   ELSE task.rcv[mem]]]
           /\ stocksTasks' = SetTask(t,
                  IF task.m < Len(StockDataMembers)
                  THEN [task EXCEPT !.m = task.m + 1]
                  ELSE NextSymbol(task))
    /\ UNCHANGED <<destroyed, graph, animVars, effect, now, started, wifi, isUpdating, nextFetch, lastUpdate, lastCount,
                   stocksSpawnedAt, iCurrentStock, callers, envVars, weatherVars, subsVars>>

\* ... = stockDataReceived: the copy assignment, one member at a time
StocksAssignMember(t) ==
    /\ stocksTasks[t].pc = "assign"
    /\ LET task == stocksTasks[t]
           key  == task.rcv.symbol
           mem  == StockDataMembers[task.m]
       IN  /\ stockData' = [stockData EXCEPT ![key] =
                               [stockData[key] EXCEPT ![mem] = task.rcv[mem]]]
           /\ stocksTasks' = SetTask(t,
                  IF task.m < Len(StockDataMembers)
                  THEN [task EXCEPT !.m = task.m + 1]
                  ELSE NextSymbol(task))
    /\ UNCHANGED <<destroyed, graph, animVars, effect, now, started, wifi, isUpdating, nextFetch, lastUpdate, lastCount,
                   stocksSpawnedAt, iCurrentStock, callers, envVars, weatherVars, subsVars>>

\* A FetchQuotesTask that ends without clearing the flag
StocksTaskFinishNoReset(t) ==
    /\ stocksTasks[t].pc = "finish"
    /\ stocksTasks' = SetTask(t, [stocksTasks[t] EXCEPT !.pc = "delete"])
    /\ UNCHANGED <<destroyed, graph, animVars, effect, now, started, wifi, isUpdating, nextFetch, lastUpdate, lastCount,
                   stocksSpawnedAt, iCurrentStock, stockData, callers, envVars, weatherVars, subsVars>>

\* A FetchQuotesTask that makes the next fetch due as it ends
StocksTaskFinishRearms(t) ==
    /\ stocksTasks[t].pc = "finish"
    /\ isUpdating' = FALSE
    /\ nextFetch' = now
    /\ stocksTasks' = SetTask(t, [stocksTasks[t] EXCEPT !.pc = "delete"])
    /\ UNCHANGED <<destroyed, graph, animVars, effect, now, started, wifi, lastUpdate, lastCount,
                   stocksSpawnedAt, iCurrentStock, stockData, callers, envVars, weatherVars, subsVars>>

\* FetchQuotesTask: instance->isUpdating = false
StocksTaskFinish(t) ==
    /\ stocksTasks[t].pc = "finish"
    /\ isUpdating' = FALSE
    /\ stocksTasks' = SetTask(t, [stocksTasks[t] EXCEPT !.pc = "delete"])
    /\ UNCHANGED <<destroyed, graph, animVars, effect, now, started, wifi, nextFetch, lastUpdate, lastCount,
                   stocksSpawnedAt, iCurrentStock, stockData, callers, envVars, weatherVars, subsVars>>

\* FetchQuotesTask: vTaskDelete(NULL)
StocksTaskDelete(t) ==
    /\ stocksTasks[t].pc = "delete"
    /\ stocksTasks' = RemoveTask(t)
    /\ UNCHANGED <<destroyed, graph, animVars, effect, now, started, wifi, isUpdating, nextFetch, lastUpdate, lastCount,
                   stocksSpawnedAt, iCurrentStock, stockData, callers, envVars, weatherVars, subsVars>>

---------------------------------------------------------------------------
(* PatternStocks::Draw *)

\* A BackgroundFetchQuotes that does not look at the flag
MayFetchAlways(updating) == TRUE

\* BackgroundFetchQuotes: the test of the flag
MayFetch(updating) == ~updating

\* BackgroundFetchQuotes as the render task runs it, with nothing in between:
\* the flag and the task list afterwards.  created is xTaskCreate's result.
BackgroundFetchQuotes(created) ==
    IF MayFetch(isUpdating)
    THEN <<TRUE, IF created THEN Append(stocksTasks, NewStocksTask) ELSE stocksTasks>>
    ELSE <<isUpdating, stocksTasks>>

\* BackgroundFetchQuotes as any other task runs it, a statement at a time:
\* if (!isUpdating)
CallerTest(c) ==
    /\ callers[c].pc = "test"
    /\ callers' = [callers EXCEPT ![c].pc = IF MayFetch(isUpdating) THEN "set" ELSE "done"]
    /\ UNCHANGED <<destroyed, graph, animVars, effect, now, started, wifi, stocksVars, envVars, weatherVars, subsVars>>

\* isUpdating = true
CallerSet(c) ==
    /\ callers[c].pc = "set"
    /\ isUpdating' = TRUE
    /\ callers' = [callers EXCEPT ![c].pc = "create"]
    /\ UNCHANGED <<destroyed, graph, animVars, effect, now, started, wifi, nextFetch, lastUpdate, lastCount,
                   stocksSpawnedAt, iCurrentStock, stockData, stocksTasks,
                   envVars, weatherVars, subsVars>>

\* xTaskCreate(FetchQuotesTask, ..)
CallerCreate(c, created) ==
    /\ callers[c].pc = "create"
    /\ stocksTasks' = IF created THEN Append(stocksTasks, NewStocksTask) ELSE stocksTasks
    /\ stocksSpawnedAt' = IF created THEN now ELSE stocksSpawnedAt
    /\ callers' = [callers EXCEPT ![c].pc = "done", ![c].called = TRUE]
    /\ UNCHANGED <<destroyed, graph, animVars, effect, now, started, wifi, isUpdating, nextFetch, lastUpdate,
                   lastCount, iCurrentStock, stockData, envVars, weatherVars, subsVars>>

\* A due test that lets the boundary through
FetchDueInclusive(t) == t >= nextFetch

\* Draw: is a refetch due at clock reading t?
FetchDue(t) == t > nextFetch

\* Draw: is a rotation due at clock reading t?
RotationDue(t) ==
    \/ t - lastUpdate >= STOCKS_UPDATE_INTERVAL_SECONDS
    \/ StockCount # lastCount

\* A rotation that does not wrap round
NextStockUnwrapped(i, n) == i + 1

\* A rotation that skips an entry
NextStockSkipping(i, n) == (i + 2) % n

\* Draw: iCurrentStock = (iCurrentStock + 1) % stockData.size()
NextStock(i, n) == (i + 1) % n

\* One Draw tick, d seconds after the previous one
StocksDraw(d, created) ==
    /\ effect = "Stocks"
    /\ now + d <= started + MaxRunStocks
    /\ now' = now + d
    /\ IF wifi /\ FetchDue(now')
       THEN /\ nextFetch' = now' + STOCKS_FETCH_INTERVAL_SECONDS
            /\ isUpdating' = BackgroundFetchQuotes(created)[1]
            /\ stocksTasks' = BackgroundFetchQuotes(created)[2]
            /\ stocksSpawnedAt' = IF stocksTasks' # stocksTasks THEN now' ELSE stocksSpawnedAt
       ELSE UNCHANGED <<nextFetch, isUpdating, stocksTasks, stocksSpawnedAt>>
    /\ IF RotationDue(now')
       THEN /\ lastUpdate' = now'
            /\ lastCount' = StockCount
            /\ iCurrentStock' = IF StockCount # 0
                                THEN NextStock(iCurrentStock, StockCount)
                                ELSE iCurrentStock
       ELSE UNCHANGED <<lastUpdate, lastCount, iCurrentStock>>
    /\ UNCHANGED <<destroyed, graph, animVars, effect, started, wifi, stockData, callers, envVars, weatherVars, subsVars>>

---------------------------------------------------------------------------
(* PatternWeather: conversions and the weather service's answers *)

WEATHER_INTERVAL_SECONDS == 600
\* Draw: "not more than once every half a minute"
WEATHER_MIN_GAP_SECONDS == 30
\* ARRAYSIZE(pszWeatherIcons): the initializer has 13 strings ("" and
\* "/bmp/showerrain.jpg" are adjacent literals, so they are one element)
WEATHER_ICON_COUNT == 13
\* CEveryNSeconds keeps its times in 16 bits
SECONDS16_MODULUS == 65536

\* Temperatures are held in hundredths of a degree.
KelvinToCelsius(K) == K - 27315

KelvinToFarenheit(K) == ((K - 27315) * 9) \div 5 + 3200

KelvinToLocal(K) ==
    IF config.useCelsius THEN KelvinToCelsius(K) ELSE KelvinToFarenheit(K)

\* String::toInt of the icon ids the service sends ("" for an absent member)
IconToInt(str) ==
    CASE str = "01d" -> 1
      [] str = "02d" -> 2
      [] str = "10d" -> 10
      [] str = "13d" -> 13
      [] OTHER -> 0

\* The icon range test of getWeatherData and getTomorrowTemps
IconChecked(icon) ==
    IF icon < 1 \/ icon >= WEATHER_ICON_COUNT THEN -1 ELSE icon

\* The body of an error answer of the service: none of the expected members
ErrorDoc == [cod |-> 404]

\* The two data sets the service can be serving
WeatherGens == {1, 2}

TodayDoc(g) ==
    [main |-> [temp     |-> 27315 + 1000 * g,
               temp_max |-> 27815 + 1000 * g,
               temp_min |-> 26815 + 1000 * g],
     weather |-> <<[icon |-> IF g = 1 THEN "01d" ELSE "13d"]>>,
     name |-> IF g = 1 THEN "Redmond" ELSE "Seattle"]

ForecastDoc(g) ==
    [list |-> << [dt_txt |-> "today",
                  main |-> [temp_max |-> 27815 + 1000 * g, temp_min |-> 26815 + 1000 * g],
                  weather |-> <<[icon |-> "01d"]>>],
                 [dt_txt |-> "tomorrow",
                  main |-> [temp_max |-> 27915 + 1000 * g, temp_min |-> 26915 + 1000 * g],
                  weather |-> <<[icon |-> IF g = 1 THEN "02d" ELSE "10d"]>>] >>]

GeoDoc(location) == [lat |-> "47.6", lon |-> "-122.1"]

\* http.GET() and the parsed body, for each of the three requests
GeoResponses ==
    { [code |-> -1,  doc |-> ErrorDoc],
      [code |-> 404, doc |-> ErrorDoc],
      [code |-> 200, doc |-> GeoDoc(config.location)] }

TodayResponses ==
    { [code |-> -1,  doc |-> ErrorDoc],
      [code |-> 404, doc |-> ErrorDoc],
      [code |-> 200, doc |-> TodayDoc(serverGen)] }

ForecastResponses ==
    { [code |-> -1,  doc |-> ErrorDoc],
      [code |-> 404, doc |-> ErrorDoc],
      [code |-> 200, doc |-> ForecastDoc(serverGen)] }

\* doc["main"][f] converted to float: 0 when main or f is absent
MainNumber(doc, f) ==
    IF "main" \in DOMAIN doc THEN AsNumber(doc.main, f) ELSE 0

\* String s = doc["weather"][0]["icon"]: "" when any of the three is absent
IconString(doc) ==
    IF "weather" \in DOMAIN doc /\ Len(doc.weather) > 0 /\ "icon" \in DOMAIN doc.weather[1]
    THEN doc.weather[1].icon
    ELSE ""

\* getTomorrowTemps: the index of the first list entry of tomorrow's date, 0 if none
TomorrowEntry(doc) ==
    LET list == AsArray(doc, "list")
        hits == {i \in 1..Len(list) : list[i].dt_txt = "tomorrow"}
    IN  IF hits = {} THEN 0 ELSE CHOOSE i \in hits : \A j \in hits : i <= j

---------------------------------------------------------------------------
(* The UpdateWeather worker *)

\* HasLocationChanged
HasLocationChanged ==
    strLocation # config.location \/ strCountryCode # config.countryCode

\* A task handle no live task has
NewHandle ==
    CHOOSE h \in 1..(Len(weatherTasks) + 1) :
        \A j \in 1..Len(weatherTasks) : weatherTasks[j].id # h

NewWeatherTask == [id |-> NewHandle, pc |-> "coords", doc |-> ErrorDoc, task |-> 0]

SetWeatherTask(t, task) == [weatherTasks EXCEPT ![t] = task]

\* vTaskDelete(h) called by task t: h = 0 (NULL) deletes the caller
DeleteWeatherTask(t, h) ==
    LET victim == IF h = 0 THEN weatherTasks[t].id ELSE h
    IN  SelectSeq(weatherTasks, LAMBDA w : w.id # victim)

\* updateCoordinates up to the assignment of the coordinates
WeatherCoords(t, resp) ==
    /\ weatherTasks[t].pc = "coords"
    /\ IF HasLocationChanged /\ resp.code > 0
       THEN /\ strLatitude' = AsString(resp.doc, "lat")
            /\ strLongitude' = AsString(resp.doc, "lon")
            /\ weatherTasks' = SetWeatherTask(t, [weatherTasks[t] EXCEPT !.pc = "location"])
       ELSE /\ UNCHANGED <<strLatitude, strLongitude>>
            /\ weatherTasks' = SetWeatherTask(t, [weatherTasks[t] EXCEPT !.pc = "today"])
    /\ UNCHANGED <<destroyed, graph, animVars, effect, now, started, wifi, stocksVars, callers, envVars, weather,
                   strLocation, strCountryCode, weatherTask, updateInProgress,
                   latestUpdate, timingObj, subsVars>>

\* updateCoordinates: strLocation = configLocation; strCountryCode = configCountryCode
WeatherLocation(t) ==
    /\ weatherTasks[t].pc = "location"
    /\ strLocation' = config.location
    /\ strCountryCode' = config.countryCode
    /\ weatherTasks' = SetWeatherTask(t, [weatherTasks[t] EXCEPT !.pc = "today"])
    /\ UNCHANGED <<destroyed, graph, animVars, effect, now, started, wifi, stocksVars, callers, envVars, weather,
                   strLatitude, strLongitude, weatherTask, updateInProgress,
                   latestUpdate, timingObj, subsVars>>

\* getWeatherData: does this answer count as fetched?
TodayFetched(resp) == resp.code > 0

\* getWeatherData from the request to the assignment of the three temperatures
WeatherToday(t, resp) ==
    /\ weatherTasks[t].pc = "today"
    /\ IF TodayFetched(resp)
       THEN /\ weather' = [weather EXCEPT
                  !.iconToday   = -1,
                  !.dataReady   = IF 0 < MainNumber(resp.doc, "temp") THEN TRUE ELSE @,
                  !.temperature = KelvinToLocal(MainNumber(resp.doc, "temp")),
                  !.highToday   = KelvinToLocal(MainNumber(resp.doc, "temp_max")),
                  !.loToday     = KelvinToLocal(MainNumber(resp.doc, "temp_min"))]
            /\ weatherTasks' = SetWeatherTask(t,
                  [weatherTasks[t] EXCEPT !.pc = "iconToday", !.doc = resp.doc])
       ELSE /\ UNCHANGED weather
            /\ weatherTasks' = SetWeatherTask(t, [weatherTasks[t] EXCEPT !.pc = "exit"])
    /\ UNCHANGED <<destroyed, graph, animVars, effect, now, started, wifi, stocksVars, callers, envVars,
                   strLocation, strCountryCode, strLatitude, strLongitude,
                   weatherTask, updateInProgress, latestUpdate, timingObj, subsVars>>

\* getWeatherData: iconToday = iconIndex.toInt()
WeatherIconToday(t) ==
    /\ weatherTasks[t].pc = "iconToday"
    /\ weather' = [weather EXCEPT !.iconToday = IconToInt(IconString(weatherTasks[t].doc))]
    /\ weatherTasks' = SetWeatherTask(t, [weatherTasks[t] EXCEPT !.pc = "checkToday"])
    /\ UNCHANGED <<destroyed, graph, animVars, effect, now, started, wifi, stocksVars, callers, envVars,
                   strLocation, strCountryCode, strLatitude, strLongitude,
                   weatherTask, updateInProgress, latestUpdate, timingObj, subsVars>>

\* getWeatherData: the range test of iconToday, then the location name
WeatherCheckToday(t) ==
    /\ weatherTasks[t].pc = "checkToday"
    /\ weather' = [weather EXCEPT
           !.iconToday = IconChecked(@),
           !.strLocationName = IF "name" \in DOMAIN weatherTasks[t].doc
                               THEN weatherTasks[t].doc.name ELSE @]
    /\ weatherTasks' = SetWeatherTask(t,
           [weatherTasks[t] EXCEPT !.pc = "tomorrow", !.doc = ErrorDoc])
    /\ UNCHANGED <<destroyed, graph, animVars, effect, now, started, wifi, stocksVars, callers, envVars,
                   strLocation, strCountryCode, strLatitude, strLongitude,
                   weatherTask, updateInProgress, latestUpdate, timingObj, subsVars>>

\* getTomorrowTemps from the request to the assignment of tomorrow's temperatures
WeatherTomorrow(t, resp) ==
    /\ weatherTasks[t].pc = "tomorrow"
    /\ IF resp.code > 0
       THEN LET e == TomorrowEntry(resp.doc)
                entry == resp.doc.list[e]
            IN  IF e = 0
                THEN /\ weather' = [weather EXCEPT !.iconTomorrow = -1]
                     /\ weatherTasks' = SetWeatherTask(t,
                            [weatherTasks[t] EXCEPT !.pc = "exit"])
                ELSE /\ weather' = [weather EXCEPT
                            !.iconTomorrow = -1,
                            !.highTomorrow = IF MainNumber(entry, "temp_max") > 0
                                             THEN KelvinToLocal(MainNumber(entry, "temp_max"))
                                             ELSE @,
                            !.loTomorrow   = IF MainNumber(entry, "temp_min") > 0
                                             THEN KelvinToLocal(MainNumber(entry, "temp_min"))
                                             ELSE @]
                     /\ weatherTasks' = SetWeatherTask(t,
                            [weatherTasks[t] EXCEPT !.pc = "iconTomorrow", !.doc = entry])
       ELSE /\ UNCHANGED weather
            /\ weatherTasks' = SetWeatherTask(t, [weatherTasks[t] EXCEPT !.pc = "exit"])
    /\ UNCHANGED <<destroyed, graph, animVars, effect, now, started, wifi, stocksVars, callers, envVars,
                   strLocation, strCountryCode, strLatitude, strLongitude,
                   weatherTask, updateInProgress, latestUpdate, timingObj, subsVars>>

\* getTomorrowTemps: iconTomorrow = iconIdTomorrow.toInt()
WeatherIconTomorrow(t) ==
    /\ weatherTasks[t].pc = "iconTomorrow"
    /\ weather' = [weather EXCEPT !.iconTomorrow = IconToInt(IconString(weatherTasks[t].doc))]
    /\ weatherTasks' = SetWeatherTask(t, [weatherTasks[t] EXCEPT !.pc = "checkTomorrow"])
    /\ UNCHANGED <<destroyed, graph, animVars, effect, now, started, wifi, stocksVars, callers, envVars,
                   strLocation, strCountryCode, strLatitude, strLongitude,
                   weatherTask, updateInProgress, latestUpdate, timingObj, subsVars>>

\* getTomorrowTemps: the range test of iconTomorrow
WeatherCheckTomorrow(t) ==
    /\ weatherTasks[t].pc = "checkTomorrow"
    /\ weather' = [weather EXCEPT !.iconTomorrow = IconChecked(@)]
    /\ weatherTasks' = SetWeatherTask(t,
           [weatherTasks[t] EXCEPT !.pc = "exit", !.doc = ErrorDoc])
    /\ UNCHANGED <<destroyed, graph, animVars, effect, now, started, wifi, stocksVars, callers, envVars,
                   strLocation, strCountryCode, strLatitude, strLongitude,
                   weatherTask, updateInProgress, latestUpdate, timingObj, subsVars>>

\* UpdateWeather: auto task = pObj->weatherTask; pObj->weatherTask = nullptr
WeatherExit(t) ==
    /\ weatherTasks[t].pc = "exit"
    /\ weatherTask' = 0
    /\ weatherTasks' = SetWeatherTask(t,
           [weatherTasks[t] EXCEPT !.pc = "clear", !.task = weatherTask])
    /\ UNCHANGED <<destroyed, graph, animVars, effect, now, started, wifi, stocksVars, callers, envVars, weather,
                   strLocation, strCountryCode, strLatitude, strLongitude,
                   updateInProgress, latestUpdate, timingObj, subsVars>>

\* UpdateWeather: pObj->updateInProgress = false
WeatherClear(t) ==
    /\ weatherTasks[t].pc = "clear"
    /\ updateInProgress' = FALSE
    /\ weatherTasks' = SetWeatherTask(t, [weatherTasks[t] EXCEPT !.pc = "delete"])
    /\ UNCHANGED <<destroyed, graph, animVars, effect, now, started, wifi, stocksVars, callers, envVars, weather,
                   strLocation, strCountryCode, strLatitude, strLongitude,
                   weatherTask, latestUpdate, timingObj, subsVars>>

\* UpdateWeather: vTaskDelete(task)
WeatherDelete(t) ==
    /\ weatherTasks[t].pc = "delete"
    /\ weatherTasks' = DeleteWeatherTask(t, weatherTasks[t].task)
    /\ UNCHANGED <<destroyed, graph, animVars, effect, now, started, wifi, stocksVars, callers, envVars, weather,
                   strLocation, strCountryCode, strLatitude, strLongitude,
                   weatherTask, updateInProgress, latestUpdate, timingObj, subsVars>>

---------------------------------------------------------------------------
(* PatternWeather::Draw *)

\* CEveryNSeconds at clock reading t: the last trigger once the static object exists
TimerBase(t) == IF timingObj = -1 THEN t ELSE timingObj

\* CEveryNSeconds::ready(): has the period elapsed since the last trigger?
TimerReady(t) ==
    ((t - TimerBase(t)) % SECONDS16_MODULUS) >= WEATHER_INTERVAL_SECONDS

\* An update condition without the half-minute test
UpdateWantedNoGap(t) == TimerReady(t) \/ HasLocationChanged

\* Draw: is an update wanted at clock reading t?
UpdateWanted(t) ==
    (TimerReady(t) \/ HasLocationChanged) /\ (t - latestUpdate) >= WEATHER_MIN_GAP_SECONDS

\* Draw: may a task be created?
MayUpdate(inProgress, handle) == ~inProgress /\ handle = 0

\* One Draw tick, d seconds after the previous one
WeatherDraw(d, created) ==
    /\ effect = "Weather"
    /\ now + d <= started + MaxRunWeather
    /\ now' = now + d
    /\ IF wifi
       THEN /\ timingObj' = IF TimerReady(now') THEN now' ELSE TimerBase(now')
            /\ IF UpdateWanted(now') /\ MayUpdate(updateInProgress, weatherTask)
               THEN /\ latestUpdate' = now'
                    /\ updateInProgress' = TRUE
                    /\ IF created
                       THEN /\ weatherTask' = NewHandle
                            /\ weatherTasks' = Append(weatherTasks, NewWeatherTask)
                       ELSE UNCHANGED <<weatherTask, weatherTasks>>
               ELSE UNCHANGED <<latestUpdate, updateInProgress, weatherTask, weatherTasks>>
       ELSE UNCHANGED <<timingObj, latestUpdate, updateInProgress, weatherTask, weatherTasks>>
    /\ UNCHANGED <<destroyed, graph, animVars, effect, started, wifi, stocksVars, callers, envVars, weather,
                   strLocation, strCountryCode, strLatitude, strLongitude, subsVars>>

\* What a Draw tick puts on the display from the weather members
WeatherFrame ==
    [name         |-> IF weather.strLocationName = "" THEN strLocation
                      ELSE weather.strLocationName,
     iconToday    |-> IF weather.iconToday >= 0 THEN weather.iconToday ELSE -1,
     iconTomorrow |-> IF weather.iconTomorrow >= 0 THEN weather.iconTomorrow ELSE -1,
     temps        |-> IF weather.dataReady
                      THEN <<weather.temperature, weather.highToday, weather.loToday,
                             weather.highTomorrow, weather.loTomorrow>>
                      ELSE <<>>]

---------------------------------------------------------------------------
(* PatternSubscribers *)

SUB_CHECK_INTERVAL == 60000
SUB_CHECK_GUID_INTERVAL == 5000
SUB_CHECK_ERROR_INTERVAL == 20000
SUB_CHECK_WIFI_WAIT == 5000
MATRIX_WIDTH == 64
\* millis() at the current clock reading (far below its wrap at 2^32 here); the
\* effect starts 100 ms after boot, so that millis() is not 0 at any reading
Millis == now * 1000 + 100

\* a - b in unsigned long.  When b > a the result is 2^32 - (b - a), which is
\* beyond the integers of the model checker; 2^31 - 1 - (b - a) stands for it, and
\* like it is above every interval it is compared with.
UnsignedDiff(a, b) == IF a >= b THEN a - b ELSE 2147483647 - (b - a)

\* The channel GUIDs a user can configure (construct() replaces an empty one)
ChannelGuids == {"guid-1", "guid-2"}

\* What sight->getData() can give: failure, or the channel's statistics as strings
SightReplies ==
    { [ok |-> FALSE, subscribers_count |-> "",    views |-> ""],
      [ok |-> TRUE,  subscribers_count |-> "1200", views |-> "90000"] }

\* atol of the strings the service sends
Atol(str) ==
    CASE str = "1200"  -> 1200
      [] str = "90000" -> 90000
      [] OTHER -> 0

\* A task handle no live Subscribers task has
NewSightHandle ==
    CHOOSE h \in 1..(Len(subsTasks) + 1) :
        \A j \in 1..Len(subsTasks) : subsTasks[j].id # h

SetSubsTask(t, task) == [subsTasks EXCEPT ![t] = task]

\* Init, in a run that follows at most limit tasks.  created is false when
\* LEDStripEffect::Init or xTaskCreatePinnedToCore fails.  Nothing is tested
\* before the call: the new handle replaces whatever sightTask held.
SubsInitWithin(created, limit) ==
    /\ effect = "Subscribers"
    /\ Len(subsTasks) < limit
    /\ IF created
       THEN /\ sightTask' = NewSightHandle
            /\ subsTasks' = Append(subsTasks, [id |-> NewSightHandle, pc |-> "loop", guidUpdated |-> FALSE])
       ELSE UNCHANGED <<sightTask, subsTasks>>
    /\ UNCHANGED <<destroyed, graph, animVars, effect, now, started, wifi, stocksVars, callers, envVars, weatherVars, sightFailed,
                   channelGuid, subscribers, views, strChannelGuid, millisLastCheck,
                   succeededBefore, sightGuid, subsFrame>>

\* Init: xTaskCreatePinnedToCore(SightTaskEntryPoint, .., &sightTask, ..)
SubsInit(created) == SubsInitWithin(created, MaxSubsTasks)

\* ~PatternSubscribers: vTaskDelete(sightTask) ends the task the handle names
\* (a null handle names the caller, which is no worker); a worker whose handle
\* a later Init has overwritten is not reached
SubsDestroy ==
    /\ effect = "Subscribers"
    /\ ~destroyed
    /\ destroyed' = TRUE
    /\ subsTasks' = SelectSeq(subsTasks, LAMBDA w : w.id # sightTask)
    /\ UNCHANGED <<graph, animVars, effect, now, started, wifi, stocksVars, callers, envVars,
                   weatherVars, sightFailed, channelGuid, subscribers, views, strChannelGuid,
                   millisLastCheck, succeededBefore, sightTask, sightGuid, subsFrame>>

\* SightTaskEntryPoint: is a check due?  succeeded is succeededBefore as
\* UpdateGuid has left it, since is millisSinceLastCheck.
CheckDue(guidUpdated, succeeded, since) ==
    \/ guidUpdated
    \/ millisLastCheck = 0
    \/ (~succeeded /\ since > SUB_CHECK_ERROR_INTERVAL)
    \/ since > SUB_CHECK_INTERVAL

\* SightTaskEntryPoint: UpdateGuid() and the test at the head of the loop
SubsLoop(t) ==
    /\ subsTasks[t].pc = "loop"
    /\ LET guidUpdated == strChannelGuid # channelGuid
           succeeded == succeededBefore /\ ~guidUpdated
           due == CheckDue(guidUpdated, succeeded, UnsignedDiff(Millis, millisLastCheck))
       IN  /\ strChannelGuid' = channelGuid
           /\ succeededBefore' = succeeded
           /\ subsTasks' = SetSubsTask(t, [subsTasks[t] EXCEPT
                  !.pc = IF due THEN "wifi" ELSE "delay",
                  !.guidUpdated = guidUpdated])
    /\ UNCHANGED <<destroyed, graph, animVars, effect, now, started, wifi, stocksVars, callers, envVars, weatherVars, sightFailed,
                   channelGuid, subscribers, views, millisLastCheck, sightTask,
                   sightGuid, subsFrame>>

\* The clock after a vTaskDelay of ms milliseconds
AfterDelay(ms) ==
    IF now + ms \div 1000 <= started + MaxRunSubs THEN now + ms \div 1000 ELSE now

\* UpdateSubscribers: the wait for WiFi, then millisLastCheck and the YouTubeSight object
SubsWaitWiFi(t) ==
    /\ subsTasks[t].pc = "wifi"
    /\ IF ~wifi
       THEN /\ now' = AfterDelay(SUB_CHECK_WIFI_WAIT)
            /\ UNCHANGED <<millisLastCheck, sightGuid, subsTasks>>
       ELSE /\ millisLastCheck' = Millis
            /\ sightGuid' = IF sightGuid = "" \/ subsTasks[t].guidUpdated
                            THEN strChannelGuid ELSE sightGuid
            /\ subsTasks' = SetSubsTask(t, [subsTasks[t] EXCEPT !.pc = "getData"])
            /\ UNCHANGED now
    /\ UNCHANGED <<destroyed, graph, animVars, effect, started, wifi, stocksVars, callers, envVars, weatherVars, sightFailed,
                   channelGuid, subscribers, views, strChannelGuid, succeededBefore,
                   sightTask, subsFrame>>

\* UpdateSubscribers: sight->getData() and what follows it
SubsGetData(t, reply) ==
    /\ subsTasks[t].pc = "getData"
    /\ IF reply.ok
       THEN /\ subscribers' = Atol(reply.subscribers_count)
            /\ views' = Atol(reply.views)
            /\ succeededBefore' = TRUE
       ELSE UNCHANGED <<subscribers, views, succeededBefore>>
    /\ sightFailed' = ~reply.ok
    /\ subsTasks' = SetSubsTask(t, [subsTasks[t] EXCEPT !.pc = "delay"])
    /\ UNCHANGED <<destroyed, graph, animVars, effect, now, started, wifi, stocksVars, callers, envVars, weatherVars,
                   channelGuid, strChannelGuid, millisLastCheck, sightTask,
                   sightGuid, subsFrame>>

\* SightTaskEntryPoint: vTaskDelay(SUB_CHECK_GUID_INTERVAL / portTICK_PERIOD_MS)
SubsDelay(t) ==
    /\ subsTasks[t].pc = "delay"
    /\ now' = AfterDelay(SUB_CHECK_GUID_INTERVAL)
    /\ subsTasks' = SetSubsTask(t, [subsTasks[t] EXCEPT !.pc = "loop"])
    /\ UNCHANGED <<destroyed, graph, animVars, effect, started, wifi, stocksVars, callers, envVars, weatherVars, sightFailed,
                   channelGuid, subscribers, views, strChannelGuid, millisLastCheck,
                   succeededBefore, sightTask, sightGuid, subsFrame>>

\* Draw: how many times "while (z /= 10)" runs for z
RECURSIVE TenthsLoop(_)
TenthsLoop(z) == IF z \div 10 = 0 THEN 0 ELSE 1 + TenthsLoop(z \div 10)

\* A Draw that waits while a worker is inside sight->getData()
SubsDrawWaits ==
    /\ effect = "Subscribers"
    /\ \A t \in 1..Len(subsTasks) : subsTasks[t].pc # "getData"
    /\ subsFrame' = [text |-> subscribers,
                     x |-> MATRIX_WIDTH \div 2 - 6 \div 2 - (6 \div 2) * TenthsLoop(subscribers)]
    /\ UNCHANGED <<destroyed, graph, animVars, effect, now, started, wifi, stocksVars, callers, envVars, weatherVars, sightFailed,
                   channelGuid, subscribers, views, strChannelGuid, millisLastCheck,
                   succeededBefore, sightTask, sightGuid, subsTasks>>

\* Draw: the number and the column it is drawn at
SubsDraw ==
    /\ effect = "Subscribers"
    /\ subsFrame' = [text |-> subscribers,
                     x |-> MATRIX_WIDTH \div 2 - 6 \div 2 - (6 \div 2) * TenthsLoop(subscribers)]
    /\ UNCHANGED <<destroyed, graph, animVars, effect, now, started, wifi, stocksVars, callers, envVars, weatherVars, sightFailed,
                   channelGuid, subscribers, views, strChannelGuid, millisLastCheck,
                   succeededBefore, sightTask, sightGuid, subsTasks>>

\* The user configures another channel
GuidChange(g) ==
    /\ effect = "Subscribers"
    /\ g # channelGuid
    /\ channelGuid' = g
    /\ UNCHANGED <<destroyed, graph, animVars, effect, now, started, wifi, stocksVars, callers, envVars, weatherVars, sightFailed,
                   subscribers, views, strChannelGuid, millisLastCheck,
                   succeededBefore, sightTask, sightGuid, subsTasks, subsFrame>>

---------------------------------------------------------------------------
(* AnimatedText.  Clock readings and animation times are in quarter seconds,
   positions in pixels. *)

\* The latest clock reading of a run of the text
MaxAnimClock == 8

\* The clock reading at which PatternStocks is constructed in such a run
AnimConstructedAt == 2

\* constexpr auto textwidth = 5
TEXT_WIDTH == 5

\* The AnimatedText members of PatternStocks
TextNames == {"textSymbol", "textPrice", "textChange", "textVolume"}

\* The lengths of the strings StartQuoteDisplay formats
TextLengths == {4, 6}

\* The constructor, called at clock reading t
AnimatedText(name, animationTime, startX, startY, endX, endY, t) ==
    [name |-> name, animationTime |-> animationTime, startTime |-> t,
     startX |-> startX, startY |-> startY, endX |-> endX, endY |-> endY,
     currentX |-> startX, currentY |-> startY]

\* The member initializers of PatternStocks
MemberInitializer(name, t) ==
    CASE name = "textSymbol" -> AnimatedText(name, 4, MATRIX_WIDTH, 0, 0, 0, t)
      [] name = "textPrice"  -> AnimatedText(name, 4, MATRIX_WIDTH, 8, 0, 8, t)
      [] name = "textChange" -> AnimatedText(name, 4, MATRIX_WIDTH, 16, 0, 16, t)
      [] name = "textVolume" -> AnimatedText(name, 4, MATRIX_WIDTH, 24, 0, 24, t)

\* StartQuoteDisplay: the text it assigns to the member, len the length of the
\* formatted string
StartQuoteDisplay(name, len, t) ==
    CASE name = "textSymbol" ->
             AnimatedText(name, 2, -MATRIX_WIDTH, 8, 0, 8, t)
      [] name = "textPrice" ->
             AnimatedText(name, 3, -MATRIX_WIDTH, 8, MATRIX_WIDTH - len * TEXT_WIDTH, 8, t)
      [] name = "textChange" ->
             AnimatedText(name, 4, -MATRIX_WIDTH, 15, MATRIX_WIDTH - len * TEXT_WIDTH, 15, t)
      [] name = "textVolume" ->
             AnimatedText(name, 4, -MATRIX_WIDTH * 2, 22, MATRIX_WIDTH - len * TEXT_WIDTH, 22, t)

\* The conversion of the float n / d to int: towards zero
TruncDiv(n, d) == IF n >= 0 THEN n \div d ELSE -((-n) \div d)

\* An interpolation whose progress is not capped
InterpolateNoClamp(start, end, elapsed, animationTime) ==
    TruncDiv(start * animationTime + (end - start) * elapsed, animationTime)

\* An interpolation whose progress starts over after the animation time
InterpolateWrapping(start, end, elapsed, animationTime) ==
    TruncDiv(start * animationTime + (end - start) * (elapsed % animationTime),
             animationTime)

\* UpdatePos: start + (end - start) * std::min(elapsed / animationTime, 1.0f)
Interpolate(start, end, elapsed, animationTime) ==
    IF elapsed >= animationTime
    THEN start + (end - start)
    ELSE TruncDiv(start * animationTime + (end - start) * elapsed, animationTime)

\* UpdatePos at clock reading t
UpdatePos(a, t) ==
    [a EXCEPT
        !.currentX = Interpolate(a.startX, a.endX, t - a.startTime, a.animationTime),
        !.currentY = Interpolate(a.startY, a.endY, t - a.startTime, a.animationTime)]

\* A Draw tick at clock reading t that rotates: StartQuoteDisplay, then
\* UpdateQuoteDisplay
TextRotate(t, len) ==
    /\ text' = UpdatePos(StartQuoteDisplay(text.name, len, t), t)
    /\ animClock' = t
    /\ UNCHANGED <<destroyed, graph, effect, now, started, wifi, stocksVars, callers, envVars, weatherVars,
                   subsVars>>

\* A Draw tick at clock reading t that does not rotate: UpdateQuoteDisplay
TextSample(t) ==
    /\ text' = UpdatePos(text, t)
    /\ animClock' = t
    /\ UNCHANGED <<destroyed, graph, effect, now, started, wifi, stocksVars, callers, envVars, weatherVars,
                   subsVars>>

---------------------------------------------------------------------------
(* The history graph of UpdateQuoteDisplay.  Prices are whole numbers here;
   a point's val is whatever number the quote server's document holds. *)

\* numeric_limits<float>::max(): a number above every price
FLT_MAX == 1000000

\* The values a history point can have
PointValues == {-2, -1, 0, 3}

\* The longest history of freely chosen points
MaxPoints == 3

\* A history of one point more than the graph is wide: w all along, v at the end
WideHistory(w, v) ==
    [i \in 1..(MATRIX_WIDTH + 1) |-> [dt |-> i, val |-> IF i <= MATRIX_WIDTH THEN w ELSE v]]

\* The histories a quote can come with
Histories ==
    UNION {[1..len -> {[dt |-> 1, val |-> v] : v \in PointValues}] : len \in 0..MaxPoints}
        \cup {WideHistory(w, v) : w \in PointValues, v \in PointValues}

\* A quote of the first symbol with history h; its high and low are not
\* those of the history
QuoteWithHistory(h) ==
    [symbol |-> SymbolList[1], timestamp |-> 1, open |-> 0, high |-> 100, low |-> -100,
     close |-> 1, volume |-> 100, points |-> h]

\* Nothing drawn: the display before the first tick, and a tick with an empty store
NoGraph == [plotted |-> <<>>, max |-> 0, min |-> 0, divided |-> FALSE, lines |-> 0]

\* int n = std::min((uint)MATRIX_WIDTH, currentStock.points.size())
PlotCount(points) == IF Len(points) < MATRIX_WIDTH THEN Len(points) ELSE MATRIX_WIDTH

\* The largest and the smallest number of a non-empty set
Largest(S) == CHOOSE v \in S : \A w \in S : w <= v

Smallest(S) == CHOOSE v \in S : \A w \in S : v <= w

\* max after the loop over the first n points: max = std::max(max, points[i].val)
\* n times leaves the largest of the 0.0f it starts from and the n vals
ScanMax(points, n) == Largest({0} \cup {points[i].val : i \in 1..n})

\* min after the loop over the first n points: min = std::min(min, points[i].val)
\* n times leaves the smallest of the FLT_MAX it starts from and the n vals
ScanMin(points, n) == Smallest({FLT_MAX} \cup {points[i].val : i \in 1..n})

\* The graph part of UpdateQuoteDisplay for the entry's points: what is plotted,
\* the max and min it scales with, whether h / range is computed, and how
\* many lines are drawn
DrawGraph(points) ==
    LET n     == PlotCount(points)
        max   == ScanMax(points, n)
        min   == ScanMin(points, n)
        range == max - min
    IN  IF n > 0
        THEN [plotted |-> SubSeq(points, 1, n), max |-> max, min |-> min,
              divided |-> range > 0,
              lines   |-> IF range > 0 THEN n - 1 ELSE 0]
        ELSE NoGraph

\* A worker's publish of a quote with history h, start to end
GraphPublish(h) ==
    /\ stockData' = [k \in DOMAIN stockData \cup {SymbolList[1]} |-> QuoteWithHistory(h)]
    /\ UNCHANGED <<destroyed, graph, animVars, effect, now, started, wifi, isUpdating, nextFetch, lastUpdate,
                   lastCount, stocksSpawnedAt, iCurrentStock, stocksTasks, callers, envVars,
                   weatherVars, subsVars>>

\* A Draw tick that neither fetches nor rotates: UpdateQuoteDisplay
GraphDraw ==
    /\ graph' = IF StockCount = 0 THEN NoGraph ELSE DrawGraph(EntryAt(iCurrentStock).points)
    /\ UNCHANGED <<destroyed, animVars, effect, now, started, wifi, stocksVars, callers,
                   envVars, weatherVars, subsVars>>

---------------------------------------------------------------------------
(* The end of an instance *)

\* ~PatternStocks() {} and the implicit destructor of PatternWeather: the
\* members are destroyed and the memory is released; no statement looks at
\* isUpdating, updateInProgress or weatherTask, and no task is deleted
Destroy ==
    /\ effect \in {"Stocks", "Weather"}
    /\ ~destroyed
    /\ destroyed' = TRUE
    /\ UNCHANGED <<graph, animVars, effect, now, started, wifi, stocksVars, callers, envVars,
                   weatherVars, subsVars>>

\* The released memory is given to another allocation: what a worker later
\* reads where the flags and the handle were is whatever the new owner wrote
ReleasedReuse ==
    /\ destroyed
    /\ isUpdating' \in (IF effect = "Stocks" THEN BOOLEAN ELSE {isUpdating})
    /\ updateInProgress' \in (IF effect = "Weather" THEN BOOLEAN ELSE {updateInProgress})
    /\ weatherTask' \in {0, weatherTask}
    /\ <<isUpdating', updateInProgress', weatherTask'>> #
            <<isUpdating, updateInProgress, weatherTask>>
    /\ UNCHANGED <<destroyed, graph, animVars, effect, now, started, wifi, nextFetch,
                   lastUpdate, lastCount, iCurrentStock, stockData, stocksTasks,
                   stocksSpawnedAt, callers, envVars, weather, strLocation, strCountryCode,
                   strLatitude, strLongitude, latestUpdate, timingObj, weatherTasks,
                   subsVars>>

---------------------------------------------------------------------------
(* The environment *)

WiFiChange ==
    /\ wifi' = ~wifi
    /\ UNCHANGED <<destroyed, graph, animVars, effect, now, started, stocksVars, callers, envVars, weatherVars, subsVars>>

\* The configurations a user can set
Configs ==
    { [location |-> "",      countryCode |-> "",   useCelsius |-> FALSE],
      [location |-> "98074", countryCode |-> "US", useCelsius |-> FALSE] }

\* The user changes the location
ConfigChange(c) ==
    /\ effect = "Weather"
    /\ c # config
    /\ config' = c
    /\ UNCHANGED <<destroyed, graph, animVars, effect, now, started, wifi, stocksVars, callers, serverGen, weatherVars, subsVars>>

\* The weather changes; the service's answers in one fetch cycle are of one data set
ServerChange ==
    /\ effect = "Weather"
    /\ weatherTasks = <<>>
    /\ serverGen' = 3 - serverGen
    /\ UNCHANGED <<destroyed, graph, animVars, effect, now, started, wifi, stocksVars, callers, config, weatherVars, subsVars>>

---------------------------------------------------------------------------

\* The members as the constructors leave them
Constructed ==
    /\ effect \in {"Stocks", "Weather", "Subscribers"}
    /\ started \in (IF effect = "Weather" THEN WeatherStartTimes ELSE {0})
    /\ now = started
    /\ wifi \in BOOLEAN
    /\ isUpdating = FALSE
    /\ nextFetch = 0
    /\ lastUpdate = 0
    /\ lastCount = 0
    /\ iCurrentStock = 0
    /\ stockData = <<>>
    /\ stocksTasks = <<>>
    /\ stocksSpawnedAt = -1
    /\ config \in Configs
    /\ serverGen = 1
    /\ weather = [strLocationName |-> "", iconToday |-> -1, iconTomorrow |-> -1,
                  temperature |-> 0, highToday |-> 0, loToday |-> 0,
                  highTomorrow |-> 0, loTomorrow |-> 0, dataReady |-> FALSE]
    /\ strLocation = ""
    /\ strCountryCode = ""
    /\ strLatitude = "0.0"
    /\ strLongitude = "0.0"
    /\ weatherTask = 0
    /\ updateInProgress = FALSE
    /\ latestUpdate = 0
    /\ timingObj \in {-1} \cup {p \in PriorTriggers : effect = "Weather" /\ p < started}
    /\ weatherTasks = <<>>
    /\ channelGuid \in (IF effect = "Subscribers" THEN ChannelGuids ELSE {"guid-1"})
    /\ subscribers = 0
    /\ views = 0
    /\ strChannelGuid = ""
    /\ millisLastCheck \in (IF effect = "Subscribers" THEN UninitializedValues ELSE {0})
    /\ succeededBefore = FALSE
    /\ sightTask = 0
    /\ sightGuid = ""
    /\ subsTasks = <<>>
    /\ subsFrame = [text |-> 0, x |-> 0]
    /\ sightFailed = FALSE
    /\ graph = NoGraph
    /\ destroyed = FALSE

\* An effect on the render task, and nothing else calling into it
\* No text is looked at
NoText ==
    /\ text = MemberInitializer("textSymbol", 0)
    /\ animClock = 0

Init == Constructed /\ callers = <<>> /\ NoText

StocksWorker ==
    \E t \in 1..Len(stocksTasks) :
        \/ StocksTaskStart(t)
        \/ \E resp \in QuoteResponses(SymbolList[stocksTasks[t].i]) : StocksGetQuote(t, resp)
        \/ StocksMapIndex(t)
        \/ StocksAssignMember(t)
        \/ StocksTaskFinish(t)
        \/ StocksTaskDelete(t)

WeatherWorker ==
    \E t \in 1..Len(weatherTasks) :
        \/ \E resp \in GeoResponses : WeatherCoords(t, resp)
        \/ WeatherLocation(t)
        \/ \E resp \in TodayResponses : WeatherToday(t, resp)
        \/ WeatherIconToday(t)
        \/ WeatherCheckToday(t)
        \/ \E resp \in ForecastResponses : WeatherTomorrow(t, resp)
        \/ WeatherIconTomorrow(t)
        \/ WeatherCheckTomorrow(t)
        \/ WeatherExit(t)
        \/ WeatherClear(t)
        \/ WeatherDelete(t)

SubsWorker ==
    \E t \in 1..Len(subsTasks) :
        \/ SubsLoop(t)
        \/ SubsWaitWiFi(t)
        \/ \E reply \in SightReplies : SubsGetData(t, reply)
        \/ SubsDelay(t)

Next ==
    \/ \E d \in TickSteps, created \in BOOLEAN : StocksDraw(d, created)
    \/ StocksWorker
    \/ \E d \in TickSteps, created \in BOOLEAN : WeatherDraw(d, created)
    \/ WeatherWorker
    \/ \E created \in BOOLEAN : SubsInit(created)
    \/ SubsWorker
    \/ SubsDraw
    \/ \E g \in ChannelGuids : GuidChange(g)
    \/ WiFiChange
    \/ \E c \in Configs : ConfigChange(c)
    \/ ServerChange

Spec == Init /\ [][Next]_vars

---------------------------------------------------------------------------
(* BackgroundFetchQuotes entered by two tasks at once *)

TriggerInit ==
    /\ Constructed
    /\ effect = "Stocks"
    /\ wifi
    /\ callers = [c \in 1..2 |-> [pc |-> "test", called |-> FALSE]]
    /\ NoText

TriggerNext ==
    \/ \E c \in 1..Len(callers) : CallerTest(c)
    \/ \E c \in 1..Len(callers) : CallerSet(c)
    \/ \E c \in 1..Len(callers), created \in BOOLEAN : CallerCreate(c, created)
    \/ StocksWorker

TriggerSpec == TriggerInit /\ [][TriggerNext]_vars

---------------------------------------------------------------------------
(* The two effects with a one-shot worker, their workers scheduled fairly:
   a FreeRTOS task that is ready to run gets to run, and a request that
   returns is a step the worker takes *)

LiveInit == Init /\ effect \in {"Stocks", "Weather"} /\ started = 0

LiveNext ==
    \/ \E d \in TickSteps, created \in BOOLEAN : StocksDraw(d, created)
    \/ StocksWorker
    \/ \E d \in TickSteps, created \in BOOLEAN : WeatherDraw(d, created)
    \/ WeatherWorker
    \/ WiFiChange
    \/ \E c \in Configs : ConfigChange(c)
    \/ ServerChange

LiveSpec == LiveInit /\ [][LiveNext]_vars /\ WF_vars(StocksWorker) /\ WF_vars(WeatherWorker)

---------------------------------------------------------------------------
(* One AnimatedText member of PatternStocks over the Draw ticks, the wall
   clock reading whatever it is set to *)

AnimInit ==
    /\ Constructed
    /\ effect = "Stocks"
    /\ wifi
    /\ callers = <<>>
    /\ \E name \in TextNames : text = MemberInitializer(name, AnimConstructedAt)
    /\ animClock = AnimConstructedAt

AnimNext ==
    \/ \E t \in 0..MaxAnimClock, len \in TextLengths : TextRotate(t, len)
    \/ \E t \in 0..MaxAnimClock : TextSample(t)

AnimSpec == AnimInit /\ [][AnimNext]_vars

---------------------------------------------------------------------------
(* The history graph over the quotes a server can publish *)

GraphInit == Init /\ effect = "Stocks" /\ wifi

GraphNext ==
    \/ \E h \in Histories : GraphPublish(h)
    \/ GraphDraw

GraphSpec == GraphInit /\ [][GraphNext]_vars

---------------------------------------------------------------------------
(* A Stocks or Weather effect that is destroyed at any point of its life.
   Draw is called on a live instance only; a worker is a task of its own and
   runs on, whatever has become of the instance it was given. *)

DestroyInit == Init /\ effect \in {"Stocks", "Weather"} /\ started = 0 /\ wifi

DestroyNext ==
    \/ ~destroyed /\ \E d \in TickSteps, created \in BOOLEAN : StocksDraw(d, created)
    \/ ~destroyed /\ \E d \in TickSteps, created \in BOOLEAN : WeatherDraw(d, created)
    \/ StocksWorker
    \/ WeatherWorker
    \/ Destroy
    \/ ReleasedReuse

DestroySpec == DestroyInit /\ [][DestroyNext]_vars

---------------------------------------------------------------------------
(* A Subscribers effect whose Init may be called more than once, followed up
   to its destruction *)

\* How many times Init may create a task in such a run.
MaxInits == 2

InitsInit == Init /\ effect = "Subscribers" /\ wifi

InitsNext ==
    \/ ~destroyed /\ \E created \in BOOLEAN : SubsInitWithin(created, MaxInits)
    \/ ~destroyed /\ SubsWorker
    \/ ~destroyed /\ SubsDraw
    \/ SubsDestroy

InitsSpec == InitsInit /\ [][InitsNext]_vars

---------------------------------------------------------------------------
(* Properties *)

\* The workers that have not yet cleared the in-flight state behind them
StocksInFlight == {t \in 1..Len(stocksTasks) : stocksTasks[t].pc # "delete"}

WeatherInFlight == {t \in 1..Len(weatherTasks) : weatherTasks[t].pc # "delete"}

\* A step that is a Draw tick of the effect
StocksDrawStep == \E d \in TickSteps, created \in BOOLEAN : StocksDraw(d, created)

WeatherDrawStep == \E d \in TickSteps, created \in BOOLEAN : WeatherDraw(d, created)

\* C1: Stocks and Weather have at most one fetch worker outstanding each: a
\* task is created only on a step that found the in-flight state clear, and
\* never are two workers of one effect in flight together.
C1_SingleFlight ==
    /\ [](Cardinality(StocksInFlight) <= 1 /\ Cardinality(WeatherInFlight) <= 1)
    /\ [][/\ Len(stocksTasks') > Len(stocksTasks) => ~isUpdating
          /\ Len(weatherTasks') > Len(weatherTasks) => (~updateInProgress /\ weatherTask = 0)]_vars

\* The worker spawned at 600 is still in flight at 630, where the ten-minute
\* timer fired and the tick created nothing
C1_Witness ==
    /\ effect = "Weather"
    /\ now = 630 /\ timingObj = 630 /\ latestUpdate = 600
    /\ updateInProgress
    /\ Len(weatherTasks) = 1 /\ weatherTasks[1].pc # "delete"

\* C2: BackgroundFetchQuotes tests and sets the in-flight flag atomically: of
\* the callers and workers, at most one at a time is between a test that
\* found the flag clear and the worker's end.
C2_AtomicTestAndSet ==
    Cardinality({c \in 1..Len(callers) : callers[c].pc \in {"set", "create"}})
        + Cardinality(StocksInFlight) <= 1

\* The Draw of the running effect can take a step
DrawEnabled ==
    CASE effect = "Stocks" -> ENABLED StocksDrawStep
      [] effect = "Weather" -> ENABLED WeatherDrawStep
      [] effect = "Subscribers" -> ENABLED SubsDraw

\* C3: Draw of Stocks, Weather and Subscribers never blocks: in every state,
\* whatever the workers are doing, the Draw tick can run to its end, and it
\* moves no worker and changes nothing a request delivers.
C3_DrawNeverBlocks ==
    /\ []DrawEnabled
    /\ [][(StocksDrawStep \/ WeatherDrawStep \/ SubsDraw) =>
            /\ \A t \in 1..Len(stocksTasks) : stocksTasks'[t] = stocksTasks[t]
            /\ \A t \in 1..Len(weatherTasks) : weatherTasks'[t] = weatherTasks[t]
            /\ subsTasks' = subsTasks
            /\ stockData' = stockData /\ weather' = weather
            /\ subscribers' = subscribers]_vars

\* The Stocks worker created at 30 is still waiting for a quote at 60: the
\* clock moves with the Draw ticks alone, so a tick ran with the worker in flight
C3_Witness ==
    /\ effect = "Stocks"
    /\ stocksSpawnedAt = 30 /\ now = 60
    /\ \E t \in 1..Len(stocksTasks) : stocksTasks[t].pc = "get"

\* The StockData values a successful fetch delivers
CompleteQuotes ==
    {GetQuote(resp) : resp \in
        {r \in UNION {QuoteResponses(SymbolList[i]) : i \in 1..Len(SymbolList)} :
            CallbackStores(GetQuote(r))}}

\* C4: a Draw tick never reads a partly written stockData entry: the entry it
\* displays is one a fetch has delivered, whole.
C4_NoPartialEntry ==
    [][StocksDrawStep => (StockCount' = 0 \/ stockData'[KeyAt(iCurrentStock')] \in CompleteQuotes)]_vars

\* The frame of one completed fetch cycle on data set g
CycleFrame(g) ==
    [name         |-> TodayDoc(g).name,
     iconToday    |-> IconChecked(IconToInt(IconString(TodayDoc(g)))),
     iconTomorrow |-> IconChecked(IconToInt(IconString(ForecastDoc(g).list[2]))),
     temps        |-> <<KelvinToLocal(TodayDoc(g).main.temp),
                        KelvinToLocal(TodayDoc(g).main.temp_max),
                        KelvinToLocal(TodayDoc(g).main.temp_min),
                        KelvinToLocal(ForecastDoc(g).list[2].main.temp_max),
                        KelvinToLocal(ForecastDoc(g).list[2].main.temp_min)>>]

\* C5: the temperatures, icons and location name a Weather Draw tick shows all
\* come from one completed fetch cycle.
C5_OneCycleFrame ==
    [][WeatherDrawStep =>
        (weather'.dataReady => \E g \in WeatherGens : WeatherFrame' = CycleFrame(g))]_vars

\* The answers to a quote request that are a failure: HTTP not 200, or a body
\* that does not parse
FailedQuotes(s) == {r \in QuoteResponses(s) : r.code # HTTP_CODE_OK \/ ~r.json}

\* C6: a quote fetch that fails (HTTP status other than 200, or a JSON parse
\* error) leaves stockData unchanged: the worker goes on to the next symbol
\* without a store, and the map never gets an entry for the empty StockData.
C6_FailureKeepsStore ==
    /\ []("" \notin DOMAIN stockData)
    /\ [][\A t \in 1..Len(stocksTasks) :
            \A r \in FailedQuotes(SymbolList[stocksTasks[t].i]) :
                StocksGetQuote(t, r) =>
                    /\ stockData' = stockData
                    /\ stocksTasks'[t].pc \in {"get", "finish"}]_vars

\* A worker has been through the list, every fetch failed, and the map is as
\* it was before
C6_Witness ==
    /\ effect = "Stocks"
    /\ stockData = <<>>
    /\ \E t \in 1..Len(stocksTasks) : stocksTasks[t].pc = "finish"

\* C7: a Weather fetch that fails (transport error, a status that is not a
\* success, a body without the data) leaves the stored values unchanged.
C7_FailureKeepsWeather ==
    [][\A t \in 1..Len(weatherTasks) :
        /\ \A r \in TodayResponses :
              (r.code # HTTP_CODE_OK /\ WeatherToday(t, r)) => weather' = weather
        /\ \A r \in ForecastResponses :
              (r.code # HTTP_CODE_OK /\ WeatherTomorrow(t, r)) => weather' = weather]_vars

\* The members a quote document must have
RequiredQuoteFields ==
    {"symbol", "timestamp", "open", "high", "low", "close", "volume", "points"}

\* C8: a quote document that lacks a required field is treated as a parse
\* failure: nothing of it is stored.
C8_MissingFieldFails ==
    [][\A t \in 1..Len(stocksTasks) :
        \A r \in QuoteResponses(SymbolList[stocksTasks[t].i]) :
            (/\ r.code = HTTP_CODE_OK /\ r.json
             /\ ~(RequiredQuoteFields \subseteq DOMAIN r.doc)
             /\ StocksGetQuote(t, r)) =>
                stocksTasks'[t].pc \in {"get", "finish"}]_vars

\* C9: every worker that was spawned, its requests returning, clears the
\* in-flight state in the end, whichever way its fetches went: Stocks resets
\* isUpdating, Weather resets updateInProgress and weatherTask.
C9_WorkerResets ==
    /\ (StocksInFlight # {}) ~> (StocksInFlight = {} /\ ~isUpdating)
    /\ (WeatherInFlight # {}) ~>
           (WeatherInFlight = {} /\ ~updateInProgress /\ weatherTask = 0)

\* A Stocks worker all of whose fetches failed has cleared the flag
C9_Witness ==
    /\ effect = "Stocks"
    /\ stockData = <<>>
    /\ ~isUpdating
    /\ \E t \in 1..Len(stocksTasks) : stocksTasks[t].pc = "delete"

\* C10: Stocks creates a worker only on a tick that finds the refetch due,
\* which is more than 60 seconds after the tick that last found it due, and
\* so two worker creations in a row are more than 60 seconds apart.
C10_SpawnSpacing ==
    [][(StocksDrawStep /\ Len(stocksTasks') > Len(stocksTasks)) =>
        /\ now' > nextFetch
        /\ nextFetch' = now' + STOCKS_FETCH_INTERVAL_SECONDS
        /\ stocksSpawnedAt # -1 =>
               now' - stocksSpawnedAt > STOCKS_FETCH_INTERVAL_SECONDS]_vars

\* The second worker, created at 120 with the first one's quote in the map
C10_Witness ==
    /\ effect = "Stocks"
    /\ stocksSpawnedAt = 120
    /\ "A" \in DOMAIN stockData
    /\ \E t \in 1..Len(stocksTasks) : stocksTasks[t].pc = "start"

\* C11: Weather workers are created not more than once every half a minute:
\* latestUpdate changes only on a tick that takes the creating branch, which
\* sets it to the clock, and a worker is created only 30 s or more after it.
C11_WeatherSpacing ==
    [][/\ latestUpdate' # latestUpdate =>
             (WeatherDrawStep /\ latestUpdate' = now' /\ updateInProgress')
       /\ Len(weatherTasks') > Len(weatherTasks) =>
             (latestUpdate' = now' /\ now' - latestUpdate >= WEATHER_MIN_GAP_SECONDS)]_vars

\* The worker created at 630, with the values of the worker of 600 in place
C11_Witness ==
    /\ effect = "Weather"
    /\ latestUpdate = 630
    /\ weather.dataReady
    /\ \E t \in 1..Len(weatherTasks) : weatherTasks[t].pc = "coords"

\* C12: when the configured location differs from the recorded one, the next
\* Draw tick with connectivity and nothing in flight creates a worker at once,
\* however little time has passed since the last attempt.
C12_LocationChangeSpawnsAtOnce ==
    (/\ effect = "Weather"
     /\ wifi /\ HasLocationChanged
     /\ latestUpdate > 0
     /\ ~updateInProgress /\ weatherTask = 0) =>
        ~ENABLED (WeatherDrawStep /\ ~updateInProgress')

\* C13: the refresh bookkeeping moves only on a tick that creates a worker: a
\* tick that finds a fetch in flight leaves nextFetch (Stocks) and
\* latestUpdate (Weather) as they were.
C13_BookkeepingOnlyOnSpawn ==
    [][/\ (StocksDrawStep /\ StocksInFlight # {}) => nextFetch' = nextFetch
       /\ (WeatherDrawStep /\ WeatherInFlight # {}) => latestUpdate' = latestUpdate]_vars

\* C14: the first Draw tick with connectivity after construction, no fetch
\* attempted yet, creates a worker, for Stocks and for Weather, whatever the
\* configuration and the clock.
C14_FirstTickSpawns ==
    [][/\ \A d \in TickSteps, created \in BOOLEAN :
            (/\ StocksDraw(d, created)
             /\ wifi /\ ~isUpdating /\ nextFetch = started /\ stocksSpawnedAt = -1
             /\ now' > started) => isUpdating'
       /\ \A d \in TickSteps, created \in BOOLEAN :
            (/\ WeatherDraw(d, created)
             /\ wifi /\ ~updateInProgress /\ latestUpdate = 0) => updateInProgress']_vars

\* C15: error backoff of the Subscribers worker: when the latest attempt
\* failed, the worker makes the next one as soon as it finds more than the
\* error interval elapsed, whether or not an earlier attempt had succeeded.
C15_ErrorBackoff ==
    [][\A t \in 1..Len(subsTasks) :
        (/\ SubsLoop(t)
         /\ sightFailed
         /\ UnsignedDiff(Millis, millisLastCheck) > SUB_CHECK_ERROR_INTERVAL) =>
            subsTasks'[t].pc = "wifi"]_vars

\* Has the text been sampled at its latest clock reading?  Every tick ends
\* with UpdatePos; only the freshly constructed member has not.
TextSampled == ~(text = MemberInitializer(text.name, text.startTime) /\ animClock = text.startTime)

\* C16: a sample taken at or after startTime + animationTime puts the text
\* exactly at (endX, endY).
C16_EndsExactly ==
    (TextSampled /\ animClock >= text.startTime + text.animationTime) =>
        (text.currentX = text.endX /\ text.currentY = text.endY)

\* A text that flew in from the left is sampled after its animation time
C16_Witness ==
    /\ text.startX < text.endX
    /\ animClock > text.startTime + text.animationTime
    /\ text.currentX = text.endX /\ text.currentY = text.endY

\* Is c between a and b, whichever of the two is the smaller?
Between(a, b, c) == (a <= c /\ c <= b) \/ (b <= c /\ c <= a)

\* C17: after every UpdatePos, whatever the clock read, the position is
\* between the start and the end position inclusive.
C17_ProgressInRange ==
    TextSampled =>
        /\ Between(text.startX, text.endX, text.currentX)
        /\ Between(text.startY, text.endY, text.currentY)

\* C18: between two retargets, a sample at a clock reading not earlier than
\* the previous one never moves the text back towards its start.
C18_Monotonic ==
    [][\A t \in 0..MaxAnimClock :
        (TextSample(t) /\ t >= animClock) =>
            /\ Between(text.currentX, text.endX, text'.currentX)
            /\ Between(text.currentY, text.endY, text'.currentY)]_vars

\* A text StartQuoteDisplay made, sampled when made and again a quarter
\* second later, on its way
C18_Witness ==
    /\ text.startX < 0
    /\ animClock = text.startTime + 1
    /\ text.startX < text.currentX /\ text.currentX < text.endX

\* C19: a text retargeted while its animation is in flight starts the new
\* interpolation from the position it was last sampled at.
C19_RetargetFromCurrent ==
    [][\A t \in 0..MaxAnimClock, len \in TextLengths :
        (/\ TextRotate(t, len)
         /\ TextSampled /\ text.startTime <= animClock
         /\ animClock <= t /\ t < text.startTime + text.animationTime) =>
            (text'.startX = text.currentX /\ text'.startY = text.currentY)]_vars

\* C20: with n >= 1 entries stored, a Draw tick either leaves iCurrentStock or
\* sets it to (iCurrentStock + 1) mod n, the latter whenever a rotation is due,
\* and iCurrentStock is the index of a stored entry.
C20_RotationCycles ==
    /\ [](StockCount >= 1 => (0 <= iCurrentStock /\ iCurrentStock < StockCount))
    /\ [][(StocksDrawStep /\ StockCount >= 1) =>
            /\ iCurrentStock' \in {iCurrentStock, (iCurrentStock + 1) % StockCount}
            /\ (now' - lastUpdate >= STOCKS_UPDATE_INTERVAL_SECONDS \/ StockCount # lastCount)
                  => iCurrentStock' = (iCurrentStock + 1) % StockCount]_vars

\* Two entries stored and rotated through: the index is back at the first
C20_Witness ==
    /\ effect = "Stocks"
    /\ StockCount = 2 /\ lastCount = 2
    /\ iCurrentStock = 0

\* The symbols a worker is in the middle of publishing
BeingPublished ==
    {stocksTasks[t].rcv.symbol : t \in {u \in 1..Len(stocksTasks) : stocksTasks[u].pc = "assign"}}

\* C21: the symbols of one fetch cycle are fetched and published one by one,
\* independently: after a failure for a symbol that is not the last, the worker
\* requests the next symbol, and every quote a fetch delivered gets into the
\* store whole, whatever happened to the symbols before it.
C21_IndependentFetches ==
    /\ [][\A t \in 1..Len(stocksTasks) :
            \A r \in QuoteResponses(SymbolList[stocksTasks[t].i]) :
                (/\ StocksGetQuote(t, r)
                 /\ ~CallbackStores(GetQuote(r))
                 /\ stocksTasks[t].i < Len(SymbolList)) =>
                    /\ stocksTasks'[t].pc = "get"
                    /\ stocksTasks'[t].i = stocksTasks[t].i + 1]_vars
    /\ \A i \in 1..Len(SymbolList) :
          (\E t \in 1..Len(stocksTasks) :
               stocksTasks[t].pc = "index" /\ stocksTasks[t].rcv.symbol = SymbolList[i])
             ~> (/\ SymbolList[i] \in DOMAIN stockData \ BeingPublished
                 /\ stockData[SymbolList[i]] \in CompleteQuotes)

\* The fetch of the first symbol failed and the quote of the second is stored
C21_Witness ==
    /\ effect = "Stocks"
    /\ DOMAIN stockData = {SymbolList[2]}
    /\ stockData[SymbolList[2]] = BuildStockData(GoodDoc(SymbolList[2]))
    /\ \E t \in 1..Len(stocksTasks) : stocksTasks[t].pc = "finish"

\* C22: a step of a Stocks fetch worker changes the store and the in-flight
\* flag and nothing else of the effect: iCurrentStock, lastUpdate, nextFetch
\* and the AnimatedText members are as they were before the step.
C22_WorkerWritesStoreOnly ==
    [][StocksWorker =>
        /\ iCurrentStock' = iCurrentStock
        /\ lastUpdate' = lastUpdate
        /\ nextFetch' = nextFetch
        /\ text' = text]_vars

\* A worker has ended its cycle with the display on the second entry, where
\* a rotation of the Draw ticks has put it
C22_Witness ==
    /\ effect = "Stocks"
    /\ iCurrentStock = 1 /\ lastUpdate > 0 /\ nextFetch > 0
    /\ ~isUpdating
    /\ \E t \in 1..Len(stocksTasks) : stocksTasks[t].pc = "delete"

\* C23: Draw never goes past the end of the store: in every state, wherever
\* the workers are in their publishes, the store is empty or iCurrentStock is
\* the index of one of its entries, and a tick that finds the store empty
\* leaves the index alone.
C23_IndexInRange ==
    /\ [](\/ StockCount = 0
          \/ /\ iCurrentStock \in 0..(StockCount - 1)
             /\ KeyAt(iCurrentStock) \in DOMAIN stockData)
    /\ [][(StocksDrawStep /\ StockCount = 0) => iCurrentStock' = iCurrentStock]_vars

\* The display is on the last of two entries while a worker is in the
\* middle of the assignment of an entry
C23_Witness ==
    /\ effect = "Stocks"
    /\ StockCount = 2 /\ iCurrentStock = 1
    /\ \E t \in 1..Len(stocksTasks) :
          stocksTasks[t].pc = "assign" /\ stocksTasks[t].m > 1

\* C24: a fetch that does not complete stops holding up the refreshes after a
\* bounded time: a due tick with connectivity that comes more than a whole
\* fetch interval (Stocks) or more than the half minute (Weather) after the
\* latest worker was created does not find the in-flight state still set by
\* it, and so creates a new worker when xTaskCreate succeeds.
C24_TimeoutForcesIdle ==
    [][/\ \A d \in TickSteps :
            (/\ StocksDraw(d, TRUE)
             /\ wifi /\ FetchDue(now')
             /\ stocksSpawnedAt # -1
             /\ now' - stocksSpawnedAt > STOCKS_FETCH_INTERVAL_SECONDS) =>
                Len(stocksTasks') > Len(stocksTasks)
       /\ \A d \in TickSteps :
            (/\ WeatherDraw(d, TRUE)
             /\ wifi /\ UpdateWanted(now')
             /\ WeatherInFlight # {}
             /\ now' - latestUpdate > WEATHER_MIN_GAP_SECONDS) =>
                Len(weatherTasks') > Len(weatherTasks)]_vars

\* C25: a published quote reads back as the worker built it: when the
\* assignment of an entry is complete the entry equals the StockData the
\* worker received, member for member and point for point, and until a
\* worker publishes that symbol again Draw's iterator reads a quote as a
\* worker built it, under its own symbol.
C25_RoundTrip ==
    /\ [][\A t \in 1..Len(stocksTasks) :
            (StocksAssignMember(t) /\ stocksTasks[t].m = Len(StockDataMembers)) =>
                stockData'[stocksTasks[t].rcv.symbol] = stocksTasks[t].rcv]_vars
    /\ [](\A i \in 0..(StockCount - 1) :
             KeyAt(i) \notin BeingPublished =>
                 /\ EntryAt(i) \in CompleteQuotes
                 /\ EntryAt(i).symbol = KeyAt(i))

\* The complete quote of the first symbol is in the store, history points
\* and all, and the display is on it
C25_Witness ==
    /\ effect = "Stocks"
    /\ SymbolList[1] \in DOMAIN stockData
    /\ stockData[SymbolList[1]] = BuildStockData(GoodDoc(SymbolList[1]))
    /\ Len(stockData[SymbolList[1]].points) = 2
    /\ KeyAt(iCurrentStock) = SymbolList[1]
    /\ lastCount = StockCount

\* C26: publishing a quote for a symbol writes the entry of that symbol and
\* no other: the steps of the publish leave every other entry as it was and
\* add no key but that symbol, and no step of anything removes a key, so the
\* set of stored symbols only grows.
C26_PublishWritesOneEntry ==
    [][/\ DOMAIN stockData \subseteq DOMAIN stockData'
       /\ \A t \in 1..Len(stocksTasks) :
            (StocksMapIndex(t) \/ StocksAssignMember(t)) =>
                /\ DOMAIN stockData' \subseteq DOMAIN stockData \cup {stocksTasks[t].rcv.symbol}
                /\ \A k \in DOMAIN stockData \ {stocksTasks[t].rcv.symbol} :
                      stockData'[k] = stockData[k]]_vars

\* The quote of the second symbol has been published after that of the
\* first, which is in the store as it was published
C26_Witness ==
    /\ effect = "Stocks"
    /\ DOMAIN stockData = {SymbolList[1], SymbolList[2]}
    /\ stockData[SymbolList[1]] = BuildStockData(GoodDoc(SymbolList[1]))
    /\ stockData[SymbolList[2]] = BuildStockData(SymbolOnlyDoc(SymbolList[2]))
    /\ \E t \in 1..Len(stocksTasks) : stocksTasks[t].pc = "finish"

\* The largest and the smallest val of a non-empty sequence of points
SeqMax(points) == Largest({points[i].val : i \in 1..Len(points)})

SeqMin(points) == Smallest({points[i].val : i \in 1..Len(points)})

\* C27: the graph is scaled with the largest and the smallest of the points
\* it plots, which are the first MATRIX_WIDTH of the history at most, and not
\* with the quote's high and low; with no points, or with the largest equal to
\* the smallest, it draws no line and divides by no range.
C27_GraphScale ==
    /\ Len(graph.plotted) <= MATRIX_WIDTH
    /\ graph.plotted # <<>> =>
          /\ graph.max = SeqMax(graph.plotted)
          /\ graph.min = SeqMin(graph.plotted)
    /\ (graph.plotted = <<>> \/ SeqMax(graph.plotted) = SeqMin(graph.plotted)) =>
          (graph.lines = 0 /\ ~graph.divided)

\* The statements of the loop of SightTaskEntryPoint
SightLoop == {"loop", "wifi", "getData", "delay"}

\* C28: every fetch task ends after one cycle of fetching and publishing: a
\* Stocks task that is done with the last symbol and a Weather task that is
\* done with the forecast go on to their exit, and a Subscribers task that has
\* made its request and stored the answer is deleted or on its way out, not
\* back in its loop.
C28_ShortLivedTasks ==
    [][/\ \A t \in 1..Len(stocksTasks) :
            (/\ stocksTasks[t].i = Len(SymbolList)
             /\ \/ \E r \in QuoteResponses(SymbolList[stocksTasks[t].i]) :
                      StocksGetQuote(t, r) /\ ~CallbackStores(GetQuote(r))
                \/ StocksAssignMember(t) /\ stocksTasks[t].m = Len(StockDataMembers)) =>
                stocksTasks'[t].pc = "finish"
       /\ \A t \in 1..Len(weatherTasks) :
            WeatherCheckTomorrow(t) => weatherTasks'[t].pc = "exit"
       /\ \A t \in 1..Len(subsTasks) :
            (\E reply \in SightReplies : SubsGetData(t, reply)) =>
                \/ Len(subsTasks') < Len(subsTasks)
                \/ subsTasks'[t].pc \notin SightLoop]_vars

\* The answers to the coordinate lookup that are no success: a transport
\* error, a status other than 200, or a body without lat and lon
FailedLookups ==
    {r \in GeoResponses : r.code # HTTP_CODE_OK \/ ~({"lat", "lon"} \subseteq DOMAIN r.doc)}

\* C29: the recorded location (strLocation, strCountryCode) is set only after
\* a coordinate lookup that succeeded: a worker whose lookup failed does not
\* go on to record the configured location, so that HasLocationChanged still
\* holds after it and the lookup is made again.
C29_FingerprintOnlyOnSuccess ==
    [][\A t \in 1..Len(weatherTasks) :
        \A r \in FailedLookups :
            (WeatherCoords(t, r) /\ HasLocationChanged) =>
                /\ weatherTasks'[t].pc # "location"
                /\ strLatitude' = strLatitude /\ strLongitude' = strLongitude]_vars

\* C30: whenever a Weather Draw tick takes an icon from the table, the index
\* is one of the table's: in every state, and so at whatever point of the
\* worker the tick falls, an iconToday or iconTomorrow that is not negative is
\* below the number of entries.
C30_IconInBounds ==
    effect = "Weather" =>
        /\ WeatherFrame.iconToday \in -1..(WEATHER_ICON_COUNT - 1)
        /\ WeatherFrame.iconTomorrow \in -1..(WEATHER_ICON_COUNT - 1)

\* C33: when the creation of the background task fails the in-flight flag
\* does not stay set: in every state a set isUpdating or updateInProgress
\* belongs to a worker that is alive and will clear it, so that with no worker
\* the effect is Idle and a later due tick can spawn.
C33_FailedCreateReturnsIdle ==
    /\ (effect = "Stocks" /\ isUpdating) => stocksTasks # <<>>
    /\ (effect = "Weather" /\ updateInProgress) => weatherTasks # <<>>

\* The coordinates a successful lookup can have stored
LookedUpCoordinates ==
    {<<GeoDoc(c.location).lat, GeoDoc(c.location).lon>> : c \in Configs}

\* C34: the weather worker asks for the current weather and for the forecast
\* only with coordinates that a successful lookup stored: a worker whose
\* lookup failed goes straight to its exit, and every request for weather or
\* forecast is made with strLatitude and strLongitude of a successful lookup,
\* never with the initial "0.0" or with what a failed lookup left.
C34_FetchOnlyWithCoordinates ==
    [][\A t \in 1..Len(weatherTasks) :
        /\ \A r \in FailedLookups :
              (WeatherCoords(t, r) /\ HasLocationChanged) =>
                  weatherTasks'[t].pc = "exit"
        /\ (\E resp \in TodayResponses : WeatherToday(t, resp)) =>
              <<strLatitude, strLongitude>> \in LookedUpCoordinates
        /\ (\E resp \in ForecastResponses : WeatherTomorrow(t, resp)) =>
              <<strLatitude, strLongitude>> \in LookedUpCoordinates]_vars

\* C31: no worker uses an instance that has been destroyed: in every state
\* in which the instance is destroyed, no FetchQuotesTask and no UpdateWeather
\* task has a statement ahead of it that reads or writes a member (every
\* statement before the final vTaskDelete does), the destructor having waited
\* for the worker or stopped it.
C31_NoUseAfterDestroy ==
    destroyed => (StocksInFlight = {} /\ WeatherInFlight = {})

\* C32: a PatternSubscribers instance has at most one worker task at any
\* time, however often Init is called: a second Init while the first worker
\* is alive starts no second one; and once the destructor has run no worker
\* of the instance is left.
C32_OneWorker ==
    effect = "Subscribers" =>
        /\ Len(subsTasks) <= 1
        /\ destroyed => subsTasks = <<>>

====
